---- MODULE Spec2Model ----
(***************************************************************************)
(* Model of the chord enrichment pipeline of src/parser/parser.ts          *)
(* (class ChordParser) and of the pass parseAllChords makes over a raw     *)
(* chord database.                                                         *)
(*                                                                         *)
(* JavaScript strings that the code inspects character by character (keys, *)
(* suffix codes, chord symbols, ids) are sequences of one-character        *)
(* strings: "m7" is <<"m", "7">>.  Numbers with one decimal (difficulty)   *)
(* are integers counting tenths: 1.5 is 15.                                *)
(***************************************************************************)
EXTENDS Integers, Sequences, FiniteSets, TLC

VARIABLES
    database,       \* ChordParser.database.chords, as the sequence Object.entries yields
    chordsMap,      \* parseAllChords: chordsMap
    pc,             \* position of the running operation
    keyIdx,         \* parseAllChords: index of the outer for-of loop
    chordIdx,       \* parseAllChords: index of the inner for-of loop
    normalizedKey,  \* parseAllChords: normalizedKey of the current outer iteration
    warnings,       \* console.warn calls made by the catch block
    key,            \* argument of buildChordSymbol
    suffix,         \* argument of the suffix functions
    symbol,         \* result of buildChordSymbol
    quality,        \* result of determineQuality
    progressions,   \* result of findCommonProgressions
    position,       \* argument of parseFingering: a RawPosition
    fingering       \* result of parseFingering

vars == <<database, chordsMap, pc, keyIdx, chordIdx, normalizedKey, warnings,
          key, suffix, symbol, quality, progressions, position, fingering>>

passVars == <<database, chordsMap, keyIdx, chordIdx, normalizedKey, warnings>>
suffixVars == <<key, suffix, symbol, quality, progressions>>
fingeringVars == <<position, fingering>>

(***************************************************************************)
(* JavaScript string primitives                                            *)
(***************************************************************************)

\* String.prototype.includes
Includes(s, pat) ==
    \E i \in 1..(Len(s) - Len(pat) + 1) : SubSeq(s, i, i + Len(pat) - 1) = pat

\* String.prototype.toLowerCase on one character
LowerChar(c) ==
    CASE c = "A" -> "a" [] c = "B" -> "b" [] c = "C" -> "c" [] c = "D" -> "d"
      [] c = "E" -> "e" [] c = "F" -> "f" [] c = "G" -> "g" [] c = "H" -> "h"
      [] c = "L" -> "l" [] c = "P" -> "p" [] c = "R" -> "r" [] c = "S" -> "s"
      [] c = "T" -> "t"
      [] OTHER -> c

ToLowerCase(s) == [i \in 1..Len(s) |-> LowerChar(s[i])]

\* does pat occur in s at index i (ci: ignoring case, the regex flag i)
MatchesAt(s, i, pat, ci) ==
    /\ i + Len(pat) - 1 <= Len(s)
    /\ IF ci THEN ToLowerCase(SubSeq(s, i, i + Len(pat) - 1)) = ToLowerCase(pat)
             ELSE SubSeq(s, i, i + Len(pat) - 1) = pat

\* String.prototype.replace with a global regex of a literal pattern:
\* every non-overlapping occurrence, scanning from the left
RECURSIVE ReplaceFrom(_, _, _, _, _)
ReplaceFrom(s, i, pat, rep, ci) ==
    IF i > Len(s) THEN <<>>
    ELSE IF MatchesAt(s, i, pat, ci)
         THEN rep \o ReplaceFrom(s, i + Len(pat), pat, rep, ci)
         ELSE <<s[i]>> \o ReplaceFrom(s, i + 1, pat, rep, ci)

ReplaceAll(s, pat, rep, ci) == ReplaceFrom(s, 1, pat, rep, ci)

\* String.prototype.split on a one-character separator
RECURSIVE SplitFrom(_, _, _, _)
SplitFrom(s, i, sep, cur) ==
    IF i > Len(s) THEN <<cur>>
    ELSE IF s[i] = sep
         THEN <<cur>> \o SplitFrom(s, i + 1, sep, <<>>)
         ELSE SplitFrom(s, i + 1, sep, Append(cur, s[i]))

Split(s, sep) == SplitFrom(s, 1, sep, <<>>)

\* decimal digits of a natural number, as template literals print it
DigitChar(d) ==
    CASE d = 0 -> "0" [] d = 1 -> "1" [] d = 2 -> "2" [] d = 3 -> "3"
      [] d = 4 -> "4" [] d = 5 -> "5" [] d = 6 -> "6" [] d = 7 -> "7"
      [] d = 8 -> "8" [] d = 9 -> "9"

RECURSIVE NumberToString(_)
NumberToString(n) ==
    IF n < 0 THEN <<"-">> \o NumberToString(0 - n)
    ELSE IF n < 10 THEN <<DigitChar(n)>>
    ELSE NumberToString(n \div 10) \o <<DigitChar(n % 10)>>

\* Math.max(...xs) and Math.min(...xs) of a non-empty set of numbers
SetMax(S) == CHOOSE x \in S : \A y \in S : y <= x
SetMin(S) == CHOOSE x \in S : \A y \in S : x <= y

\* [...new Set(tags)]: first occurrences, in insertion order
RECURSIVE Dedup(_)
Dedup(s) ==
    IF s = <<>> THEN <<>>
    ELSE LET front == Dedup(SubSeq(s, 1, Len(s) - 1))
             last == s[Len(s)]
         IN IF \E i \in 1..Len(front) : front[i] = last THEN front
            ELSE Append(front, last)

(***************************************************************************)
(* SUFFIX_MAP                                                              *)
(***************************************************************************)

SUFFIX_MAP ==
  { <<<<"m", "a", "j", "o", "r">>, <<>>>>,
    <<<<"m", "i", "n", "o", "r">>, <<"m">>>>,
    <<<<"d", "i", "m">>, <<"d", "i", "m">>>>,
    <<<<"d", "i", "m", "7">>, <<"d", "i", "m", "7">>>>,
    <<<<"s", "u", "s">>, <<"s", "u", "s", "4">>>>,
    <<<<"s", "u", "s", "2">>, <<"s", "u", "s", "2">>>>,
    <<<<"s", "u", "s", "4">>, <<"s", "u", "s", "4">>>>,
    <<<<"s", "u", "s", "2", "s", "u", "s", "4">>, <<"s", "u", "s", "2", "s", "u", "s", "4">>>>,
    <<<<"7", "s", "u", "s", "4">>, <<"7", "s", "u", "s", "4">>>>,
    <<<<"a", "l", "t">>, <<"a", "l", "t">>>>,
    <<<<"a", "u", "g">>, <<"a", "u", "g">>>>,
    <<<<"5">>, <<"5">>>>,
    <<<<"6">>, <<"6">>>>,
    <<<<"6", "9">>, <<"6", "9">>>>,
    <<<<"7">>, <<"7">>>>,
    <<<<"7", "b", "5">>, <<"7", "b", "5">>>>,
    <<<<"a", "u", "g", "7">>, <<"7", "#", "5">>>>,
    <<<<"9">>, <<"9">>>>,
    <<<<"9", "b", "5">>, <<"9", "b", "5">>>>,
    <<<<"a", "u", "g", "9">>, <<"9", "#", "5">>>>,
    <<<<"7", "b", "9">>, <<"7", "b", "9">>>>,
    <<<<"7", "#", "9">>, <<"7", "#", "9">>>>,
    <<<<"1", "1">>, <<"1", "1">>>>,
    <<<<"9", "#", "1", "1">>, <<"9", "#", "1", "1">>>>,
    <<<<"1", "3">>, <<"1", "3">>>>,
    <<<<"m", "a", "j", "7">>, <<"m", "a", "j", "7">>>>,
    <<<<"m", "a", "j", "7", "b", "5">>, <<"m", "a", "j", "7", "b", "5">>>>,
    <<<<"m", "a", "j", "7", "#", "5">>, <<"m", "a", "j", "7", "#", "5">>>>,
    <<<<"m", "a", "j", "7", "s", "u", "s", "2">>, <<"m", "a", "j", "7", "s", "u", "s", "2">>>>,
    <<<<"m", "a", "j", "9">>, <<"m", "a", "j", "9">>>>,
    <<<<"m", "a", "j", "1", "1">>, <<"m", "a", "j", "1", "1">>>>,
    <<<<"m", "a", "j", "1", "3">>, <<"m", "a", "j", "1", "3">>>>,
    <<<<"m", "6">>, <<"m", "6">>>>,
    <<<<"m", "6", "9">>, <<"m", "6", "9">>>>,
    <<<<"m", "7">>, <<"m", "7">>>>,
    <<<<"m", "7", "b", "5">>, <<"m", "7", "b", "5">>>>,
    <<<<"m", "9">>, <<"m", "9">>>>,
    <<<<"m", "1", "1">>, <<"m", "1", "1">>>>,
    <<<<"m", "m", "a", "j", "7">>, <<"m", "(", "m", "a", "j", "7", ")">>>>,
    <<<<"m", "m", "a", "j", "7", "b", "5">>, <<"m", "7", "b", "5", "(", "m", "a", "j", "7", ")">>>>,
    <<<<"m", "m", "a", "j", "9">>, <<"m", "9", "(", "m", "a", "j", "7", ")">>>>,
    <<<<"m", "m", "a", "j", "1", "1">>, <<"m", "1", "1", "(", "m", "a", "j", "7", ")">>>>,
    <<<<"a", "d", "d", "9">>, <<"a", "d", "d", "9">>>>,
    <<<<"m", "a", "d", "d", "9">>, <<"m", "a", "d", "d", "9">>>>,
    <<<<"a", "d", "d", "1", "1">>, <<"a", "d", "d", "1", "1">>>> }

\* the keys of SUFFIX_MAP
TableCodes == {entry[1] : entry \in SUFFIX_MAP}

\* SUFFIX_MAP[code], for a code of the table
SuffixMapGet(code) == (CHOOSE entry \in SUFFIX_MAP : entry[1] = code)[2]

\* SUFFIX_MAP[code] || code: a missing entry (undefined) and an empty
\* fragment ("") are both falsy, so both fall through to the code itself
TonalSuffix(code) ==
    IF code \in TableCodes /\ SuffixMapGet(code) # <<>>
    THEN SuffixMapGet(code)
    ELSE code

(***************************************************************************)
(* Pure functions of ChordParser over key and suffix                       *)
(***************************************************************************)

normalizeKey(k) ==
    ReplaceAll(ReplaceAll(k, <<"s", "h", "a", "r", "p">>, <<"#">>, TRUE),
               <<"f", "l", "a", "t">>, <<"b">>, TRUE)

buildChordSymbol(k, sfx) ==
    IF Includes(sfx, <<"/">>)
    THEN LET parts == Split(sfx, "/")
             baseSuffix == parts[1]
             bass == parts[2]
             tonalSuffix == TonalSuffix(baseSuffix)
             baseSymbol == IF tonalSuffix # <<>> THEN k \o tonalSuffix ELSE k
         IN baseSymbol \o <<"/">> \o bass
    ELSE LET tonalSuffix == TonalSuffix(sfx)
         IN IF tonalSuffix # <<>> THEN k \o tonalSuffix ELSE k

\* determineQuality with the generic "m" test moved ahead of the "m7" test
determineQuality_MinorFirst(sfx) ==
    IF Includes(sfx, <<"m", "a", "j", "7">>) THEN "major-seventh"
    ELSE IF Includes(sfx, <<"m">>) THEN "minor"
    ELSE IF Includes(sfx, <<"m", "7">>) THEN "minor-seventh"
    ELSE IF Includes(sfx, <<"9">>) /\ ~Includes(sfx, <<"m", "a", "j">>)
         THEN "dominant-ninth"
    ELSE IF Includes(sfx, <<"d", "i", "m">>) THEN "diminished"
    ELSE IF Includes(sfx, <<"a", "u", "g">>) THEN "augmented"
    ELSE IF Includes(sfx, <<"s", "u", "s">>) THEN "suspended"
    ELSE IF sfx = <<"5">> THEN "power"
    ELSE IF sfx = <<"6">> THEN "sixth"
    ELSE "major"

determineQuality(sfx) ==
    IF Includes(sfx, <<"m", "a", "j", "7">>) THEN "major-seventh"
    ELSE IF Includes(sfx, <<"m", "7">>) THEN "minor-seventh"
    ELSE IF Includes(sfx, <<"d", "i", "m", "7">>) THEN "diminished-seventh"
    ELSE IF Includes(sfx, <<"a", "u", "g", "7">>) THEN "augmented-seventh"
    ELSE IF Includes(sfx, <<"m", "9">>) THEN "minor-ninth"
    ELSE IF Includes(sfx, <<"m", "a", "j", "9">>) THEN "major-ninth"
    ELSE IF Includes(sfx, <<"9">>) /\ ~Includes(sfx, <<"m", "a", "j">>)
         THEN "dominant-ninth"
    ELSE IF Includes(sfx, <<"d", "i", "m">>) THEN "diminished"
    ELSE IF Includes(sfx, <<"a", "u", "g">>) THEN "augmented"
    ELSE IF Includes(sfx, <<"s", "u", "s">>) THEN "suspended"
    ELSE IF Includes(sfx, <<"m">>) THEN "minor"
    ELSE IF sfx = <<"5">> THEN "power"
    ELSE IF sfx = <<"6">> THEN "sixth"
    ELSE IF sfx = <<"6", "9">> THEN "six-nine"
    ELSE "major"

findCommonProgressions(sfx) ==
    IF sfx = <<"m", "a", "j", "o", "r">>
    THEN <<"I-IV-V", "I-V-vi-IV", "ii-V-I">>
    ELSE IF sfx = <<"m", "i", "n", "o", "r">>
    THEN <<"i-iv-v", "i-VI-III-VII", "ii(dim)-V-i">>
    ELSE IF Includes(sfx, <<"7">>)
    THEN <<"I7-IV7-V7", "ii7-V7-I7">>
    ELSE IF Includes(sfx, <<"m", "7">>)
    THEN <<"i7-iv7-v7", "ii7b5-V7-i7">>
    ELSE <<>>

generateGenreTags(sfx) ==
    Dedup(
        (IF Includes(sfx, <<"7">>) \/ Includes(sfx, <<"9">>)
         THEN <<"blues", "jazz", "funk">> ELSE <<>>)
     \o (IF Includes(sfx, <<"s", "u", "s">>)
         THEN <<"pop", "rock", "folk">> ELSE <<>>)
     \o (IF Includes(sfx, <<"m", "a", "j", "7">>) \/ Includes(sfx, <<"m", "9">>)
         THEN <<"jazz", "bossa-nova", "r&b">> ELSE <<>>)
     \o (IF sfx = <<"5">> THEN <<"rock", "metal", "punk">> ELSE <<>>)
     \o (IF sfx = <<"m", "a", "j", "o", "r">> \/ sfx = <<"m", "i", "n", "o", "r">>
         THEN <<"all-genres", "essential">> ELSE <<>>))

generateChordId(k, sfx) ==
    ReplaceAll(
        ReplaceAll(
            ReplaceAll(ToLowerCase(k) \o <<"-">> \o ToLowerCase(sfx),
                       <<"#">>, <<"s", "h", "a", "r", "p">>, FALSE),
            <<"b">>, <<"f", "l", "a", "t">>, FALSE),
        <<"/">>, <<"-", "o", "v", "e", "r", "-">>, FALSE)

(***************************************************************************)
(* Music-theory service (the tonal library), as far as the parser uses it  *)
(***************************************************************************)

\* pitch-class names Note.fromMidi uses (flats)
PitchClassName(pcNum) ==
    CASE pcNum = 0 -> <<"C">>       [] pcNum = 1 -> <<"D", "b">>
      [] pcNum = 2 -> <<"D">>       [] pcNum = 3 -> <<"E", "b">>
      [] pcNum = 4 -> <<"E">>       [] pcNum = 5 -> <<"F">>
      [] pcNum = 6 -> <<"G", "b">>  [] pcNum = 7 -> <<"G">>
      [] pcNum = 8 -> <<"A", "b">>  [] pcNum = 9 -> <<"A">>
      [] pcNum = 10 -> <<"B", "b">> [] pcNum = 11 -> <<"B">>

\* Note.fromMidi(midi): pitch-class name followed by the octave number
NoteFromMidi(m) == PitchClassName(m % 12) \o NumberToString((m \div 12) - 1)

IsDigit(c) == c \in {"0", "1", "2", "3", "4", "5", "6", "7", "8", "9"}
IsNotDigit(c) == ~IsDigit(c)

\* note.replace(/[0-9]/g, "")
StripDigits(s) == SelectSeq(s, IsNotDigit)

\* chroma of a pitch-class name: letter plus accidentals
LetterChroma(c) ==
    CASE c = "C" -> 0 [] c = "D" -> 2 [] c = "E" -> 4 [] c = "F" -> 5
      [] c = "G" -> 7 [] c = "A" -> 9 [] c = "B" -> 11

IsNoteName(n) ==
    /\ Len(n) >= 1
    /\ n[1] \in {"C", "D", "E", "F", "G", "A", "B"}
    /\ \A i \in 2..Len(n) : n[i] \in {"#", "b"}

NoteChroma(n) ==
    (LetterChroma(n[1])
        + Cardinality({i \in 2..Len(n) : n[i] = "#"})
        - Cardinality({i \in 2..Len(n) : n[i] = "b"})) % 12

\* Interval.distance(rootPitch, note) || "": the empty string when either
\* side is no note; otherwise the interval, kept as its size in semitones
IntervalDistance(rootPitch, note) ==
    IF IsNoteName(rootPitch) /\ IsNoteName(note)
    THEN <<(NoteChroma(note) - NoteChroma(rootPitch)) % 12>>
    ELSE <<>>

\* the undefined value, where the code reads a property that may be absent
Undefined == [defined |-> FALSE]
Defined(v) == [defined |-> TRUE, value |-> v]

\* Chord.get(symbol): the empty chord (NoChord) when tonal cannot parse it
EmptyChord == [empty |-> TRUE, symbol |-> <<>>, tonic |-> Undefined, notes |-> <<>>]
ResolvedChord(k, sym) ==
    [empty |-> FALSE, symbol |-> sym, tonic |-> Defined(k), notes |-> <<k>>]

(***************************************************************************)
(* Fingering analysis                                                      *)
(***************************************************************************)

NumStrings == 6

NoBarre == [present |-> FALSE]

IsNotEmpty(s) == s # <<>>

mutedStrings(frets) ==
    LET idxs == [i \in 1..Len(frets) |-> IF frets[i] = -1 THEN i - 1 ELSE -1]
        kept == SelectSeq(idxs, LAMBDA idx : idx # -1)
    IN [i \in 1..Len(kept) |-> 6 - kept[i]]

\* parseBarre with Math.max and Math.min exchanged
parseBarre_SwappedEnds(pos) ==
    IF ~pos.barres.defined \/ Len(pos.barres.value) = 0 THEN NoBarre
    ELSE LET barreFret == pos.barres.value[1]
             barreStrings ==
                 {6 - (i - 1) : i \in {j \in 1..Len(pos.frets) : pos.frets[j] = barreFret}}
         IN IF barreStrings = {} THEN NoBarre
            ELSE [present |-> TRUE,
                  fromString |-> SetMin(barreStrings),
                  toString |-> SetMax(barreStrings),
                  fret |-> barreFret]

parseBarre(pos) ==
    IF ~pos.barres.defined \/ Len(pos.barres.value) = 0 THEN NoBarre
    ELSE LET barreFret == pos.barres.value[1]
             barreStrings ==
                 {6 - (i - 1) : i \in {j \in 1..Len(pos.frets) : pos.frets[j] = barreFret}}
         IN IF barreStrings = {} THEN NoBarre
            ELSE [present |-> TRUE,
                  fromString |-> SetMax(barreStrings),
                  toString |-> SetMin(barreStrings),
                  fret |-> barreFret]

calculateIntervals(notes, rootNote) ==
    LET rootPitch == IF rootNote.defined THEN rootNote.value ELSE <<>>
        mapped == [i \in 1..Len(notes) |-> IntervalDistance(rootPitch, notes[i])]
    IN SelectSeq(mapped, IsNotEmpty)

\* Math.round(x) for x = num / den with den > 0: floor(x + 1/2)
MathRound(num, den) == (2 * num + den) \div (2 * den)

Max2(a, b) == IF a >= b THEN a ELSE b
Min2(a, b) == IF a <= b THEN a ELSE b

\* factor 3 of calculateFingeringDifficulty: the stretch between the active
\* frets, in tenths
StretchBonus(pos) ==
    LET activeFrets == {pos.frets[i] : i \in {j \in 1..Len(pos.frets) : pos.frets[j] > 0}}
        stretch == SetMax(activeFrets) - SetMin(activeFrets)
    IN IF activeFrets = {} THEN 0
       ELSE IF stretch > 4 THEN 10
       ELSE IF stretch > 2 THEN 5 ELSE 0

\* calculateFingeringDifficulty with the capo reduction applied to the
\* clamped result instead of before the clamp
calculateFingeringDifficulty_CapoAfterClamp(pos, barre) ==
    LET raw == 10 + (IF barre.present
                     THEN 15 + (IF barre.fret > 5 THEN 5 ELSE 0) ELSE 0)
                  + (IF pos.baseFret > 7 THEN 10
                     ELSE IF pos.baseFret > 3 THEN 5 ELSE 0)
                  + StretchBonus(pos)
        clamped == Min2(50, Max2(10, 5 * MathRound(2 * raw, 10)))
    IN IF pos.capo THEN clamped - 5 ELSE clamped

\* calculateFingeringDifficulty with the barre factor subtracted (-= for +=)
calculateFingeringDifficulty_BarreSubtracts(pos, barre) ==
    LET raw == 10 - (IF barre.present
                     THEN 15 + (IF barre.fret > 5 THEN 5 ELSE 0) ELSE 0)
                  + (IF pos.baseFret > 7 THEN 10
                     ELSE IF pos.baseFret > 3 THEN 5 ELSE 0)
                  + StretchBonus(pos)
        afterCapo == IF pos.capo THEN Max2(10, raw - 5) ELSE raw
    IN Min2(50, Max2(10, 5 * MathRound(2 * afterCapo, 10)))

\* difficulty in tenths
calculateFingeringDifficulty(pos, barre) ==
    LET afterBarre ==
            10 + (IF barre.present
                  THEN 15 + (IF barre.fret > 5 THEN 5 ELSE 0)
                  ELSE 0)
        afterBase ==
            afterBarre + (IF pos.baseFret > 7 THEN 10
                          ELSE IF pos.baseFret > 3 THEN 5 ELSE 0)
        afterStretch == afterBase + StretchBonus(pos)
        afterCapo ==
            IF pos.capo THEN Max2(10, afterStretch - 5) ELSE afterStretch
    IN Min2(50, Max2(10, 5 * MathRound(2 * afterCapo, 10)))

RECURSIVE SumDifficulty(_)
SumDifficulty(fingerings) ==
    IF fingerings = <<>> THEN 0
    ELSE fingerings[1].difficulty + SumDifficulty(Tail(fingerings))

\* calculateChordDifficulty without the neutral midpoint for no fingerings:
\* the lowest score instead
calculateChordDifficulty_EmptyIsLowest(fingerings) ==
    IF Len(fingerings) = 0 THEN 10
    ELSE MathRound(SumDifficulty(fingerings), Len(fingerings))

\* aggregate difficulty in tenths
calculateChordDifficulty(fingerings) ==
    IF Len(fingerings) = 0 THEN 30
    ELSE MathRound(SumDifficulty(fingerings), Len(fingerings))

\* JavaScript %: the result takes the sign of the dividend
JsRem(a, b) == IF a >= 0 THEN a % b ELSE 0 - ((0 - a) % b)

getOrdinal(n) ==
    LET suffixes == <<"th", "st", "nd", "rd">>
        value == JsRem(n, 100)
        first == JsRem(value - 20, 10)
    IN ToString(n) \o (IF first \in 0..3 THEN suffixes[first + 1]
                       ELSE IF value \in 0..3 THEN suffixes[value + 1]
                       ELSE suffixes[1])

generateFingeringName(pos, barre) ==
    LET hasOpenStrings == \E i \in 1..Len(pos.frets) : pos.frets[i] = 0
        isOpenPosition == pos.baseFret = 1 /\ hasOpenStrings
    IN IF isOpenPosition THEN "Open Position"
       ELSE IF barre.present
            THEN IF hasOpenStrings
                 THEN "Open - " \o getOrdinal(barre.fret) \o " fret"
                 ELSE "Barre - " \o getOrdinal(barre.fret) \o " fret"
       ELSE IF hasOpenStrings
            THEN "Open - " \o getOrdinal(pos.baseFret) \o " fret"
       ELSE getOrdinal(pos.baseFret) \o " fret"

parseFingering(pos, sfx, rootNote) ==
    LET barre == parseBarre(pos)
        allNotes == [i \in 1..Len(pos.midi) |-> StripDigits(NoteFromMidi(pos.midi[i]))]
        notes == SelectSeq(allNotes, IsNotEmpty)
        rootText == IF rootNote.defined THEN rootNote.value
                    ELSE <<"u", "n", "d", "e", "f", "i", "n", "e", "d">>
    IN [id |-> rootText \o <<"-">> \o sfx \o <<"-">> \o NumberToString(pos.baseFret),
        name |-> generateFingeringName(pos, barre),
        frets |-> pos.frets,
        fingers |-> pos.fingers,
        baseFret |-> pos.baseFret,
        mutedStrings |-> mutedStrings(pos.frets),
        barre |-> barre,
        intervals |-> calculateIntervals(notes, rootNote),
        difficulty |-> calculateFingeringDifficulty(pos, barre),
        capo |-> pos.capo,
        midi |-> pos.midi,
        notes |-> notes]

generateTags(sfx, fingerings) ==
    LET avgDiff == calculateChordDifficulty(fingerings)
    IN Dedup(
        (IF Includes(sfx, <<"m", "a", "j">>) THEN <<"major-type">> ELSE <<>>)
     \o (IF Includes(sfx, <<"m", "7">>) THEN <<"minor-7th">> ELSE <<>>)
     \o (IF Includes(sfx, <<"9">>) THEN <<"extended">> ELSE <<>>)
     \o (IF Includes(sfx, <<"s", "u", "s">>) THEN <<"suspended">> ELSE <<>>)
     \o (IF Includes(sfx, <<"d", "i", "m">>) THEN <<"diminished">> ELSE <<>>)
     \o (IF Includes(sfx, <<"a", "u", "g">>) THEN <<"augmented">> ELSE <<>>)
     \o (IF Includes(sfx, <<"a", "d", "d">>) THEN <<"added-tone">> ELSE <<>>)
     \o (IF sfx = <<"5">> THEN <<"power-chord">> ELSE <<>>)
     \o (IF \E i \in 1..Len(fingerings) : fingerings[i].barre.present
         THEN <<"barre">> ELSE <<>>)
     \o (IF \E i \in 1..Len(fingerings) :
                \E j \in 1..Len(fingerings[i].frets) : fingerings[i].frets[j] = 0
         THEN <<"open-chord">> ELSE <<>>)
     \o (IF \E i \in 1..Len(fingerings) : fingerings[i].capo
         THEN <<"capo">> ELSE <<>>)
     \o (IF avgDiff <= 20 THEN <<"beginner">> ELSE <<>>)
     \o (IF avgDiff >= 40 THEN <<"advanced">> ELSE <<>>))

(***************************************************************************)
(* parseChord                                                              *)
(***************************************************************************)

\* positions.map(...) raises a TypeError when the raw chord has no positions
\* array; nothing else in parseChord raises for a chord whose suffix is a string
parseChordThrows(rawChord) == ~rawChord.positions.defined

\* the record parseChord returns, given what Chord.get answered for the symbol
parseChord(k, rawChord, chordInfo) ==
    LET sfx == rawChord.suffix
        positions == rawChord.positions.value
        rootNote == IF Len(chordInfo.notes) >= 1
                    THEN Defined(chordInfo.notes[1]) ELSE Undefined
        fingerings == [i \in 1..Len(positions) |->
                          parseFingering(positions[i], sfx, rootNote)]
    IN [empty |-> chordInfo.empty,
        symbol |-> chordInfo.symbol,
        notes |-> chordInfo.notes,
        quality |-> determineQuality(sfx),
        id |-> generateChordId(k, sfx),
        fingerings |-> fingerings,
        difficulty |-> calculateChordDifficulty(fingerings),
        commonProgressions |-> findCommonProgressions(sfx),
        tags |-> generateTags(sfx, fingerings),
        genreTags |-> generateGenreTags(sfx),
        tonic |-> IF chordInfo.tonic.defined THEN chordInfo.tonic.value ELSE k]

\* what Chord.get may answer for a symbol built from key k
ChordGet(k, sym) == {EmptyChord, ResolvedChord(k, sym)}

\* rawChord.suffix || "major"
suffixKey(rawChord) ==
    IF rawChord.suffix # <<>> THEN rawChord.suffix ELSE <<"m", "a", "j", "o", "r">>

(***************************************************************************)
(* Inputs                                                                  *)
(***************************************************************************)

MaxKeys == 2        \* raw keys in a database
MaxChords == 2      \* raw chords in a database, over all its keys

Csharp == <<"C", "s", "h", "a", "r", "p">>
RawKeys == {Csharp, <<"C", "#">>, <<"B", "F", "l", "a", "t">>}

\* F major barre shape at the first fret
BarrePosition ==
    [frets |-> <<1, 3, 3, 2, 1, 1>>, fingers |-> <<1, 3, 4, 2, 1, 1>>, baseFret |-> 1,
     barres |-> Defined(<<1>>), capo |-> FALSE, midi |-> <<41, 48, 53, 57, 60, 65>>]

RawChords ==
    {[suffix |-> <<>>, positions |-> Defined(<<>>)],
     [suffix |-> <<"m", "7">>, positions |-> Defined(<<>>)],
     [suffix |-> <<"m", "7">>, positions |-> Defined(<<BarrePosition>>)],
     [suffix |-> <<"5">>, positions |-> Undefined]}

ChordLists(n) == UNION {[1..m -> RawChords] : m \in 0..n}

\* databases with distinct raw keys, at most nKeys keys and nChords chords
RECURSIVE Databases(_, _, _)
Databases(usedKeys, nKeys, nChords) ==
    {<<>>} \cup
    (IF nKeys = 0 THEN {}
     ELSE UNION {UNION {{<<[key |-> k, chords |-> l]>> \o rest :
                            rest \in Databases(usedKeys \cup {k}, nKeys - 1,
                                               nChords - Len(l))} :
                        l \in ChordLists(nChords)} :
                 k \in RawKeys \ usedKeys})

(***************************************************************************)
(* parseAllChords: one pass over the database                              *)
(***************************************************************************)

IdleSuffix ==
    /\ key = <<>> /\ suffix = <<>>
    /\ symbol = Undefined /\ quality = Undefined /\ progressions = Undefined

IdleFingering == position = Undefined /\ fingering = Undefined

Init ==
    /\ database \in Databases({}, MaxKeys, MaxChords)
    /\ chordsMap = <<>>
    /\ pc = "keys"
    /\ keyIdx = 1
    /\ chordIdx = 1
    /\ normalizedKey = <<>>
    /\ warnings = <<>>
    /\ IdleSuffix
    /\ IdleFingering

\* EnterKey creating the entry of a key only when the key has chords
EnterKey_EntryWithFirstChord ==
    /\ pc = "keys"
    /\ keyIdx <= Len(database)
    /\ LET nk == normalizeKey(database[keyIdx].key)
       IN /\ normalizedKey' = nk
          /\ chordsMap' = IF nk \in DOMAIN chordsMap \/ database[keyIdx].chords = <<>>
                          THEN chordsMap
                          ELSE (nk :> <<>>) @@ chordsMap
    /\ chordIdx' = 1
    /\ pc' = "chords"
    /\ UNCHANGED <<database, keyIdx, warnings, suffixVars, fingeringVars>>

\* head of the outer loop body: normalize the key, create its entry
EnterKey ==
    /\ pc = "keys"
    /\ keyIdx <= Len(database)
    /\ LET nk == normalizeKey(database[keyIdx].key)
       IN /\ normalizedKey' = nk
          /\ chordsMap' = IF nk \in DOMAIN chordsMap THEN chordsMap
                          ELSE (nk :> <<>>) @@ chordsMap
    /\ chordIdx' = 1
    /\ pc' = "chords"
    /\ UNCHANGED <<database, keyIdx, warnings, suffixVars, fingeringVars>>

\* ParseChordOk with the commented-out guard of parseChord in force: an empty
\* answer of Chord.get makes parseChord return null and nothing is stored
ParseChordOk_SkipUnresolved ==
    /\ pc = "chords"
    /\ chordIdx <= Len(database[keyIdx].chords)
    /\ LET rawChord == database[keyIdx].chords[chordIdx]
       IN /\ ~parseChordThrows(rawChord)
          /\ \E chordInfo \in ChordGet(normalizedKey,
                                       buildChordSymbol(normalizedKey, rawChord.suffix)) :
                chordsMap' =
                    IF chordInfo.empty THEN chordsMap
                    ELSE [chordsMap EXCEPT ![normalizedKey] =
                            (suffixKey(rawChord) :> parseChord(normalizedKey, rawChord, chordInfo))
                                @@ chordsMap[normalizedKey]]
    /\ chordIdx' = chordIdx + 1
    /\ UNCHANGED <<database, pc, keyIdx, normalizedKey, warnings, suffixVars, fingeringVars>>

\* inner loop body, try branch: parseChord returns and its record is stored
ParseChordOk ==
    /\ pc = "chords"
    /\ chordIdx <= Len(database[keyIdx].chords)
    /\ LET rawChord == database[keyIdx].chords[chordIdx]
       IN /\ ~parseChordThrows(rawChord)
          /\ \E chordInfo \in ChordGet(normalizedKey,
                                       buildChordSymbol(normalizedKey, rawChord.suffix)) :
                chordsMap' =
                    [chordsMap EXCEPT ![normalizedKey] =
                        (suffixKey(rawChord) :> parseChord(normalizedKey, rawChord, chordInfo))
                            @@ chordsMap[normalizedKey]]
    /\ chordIdx' = chordIdx + 1
    /\ UNCHANGED <<database, pc, keyIdx, normalizedKey, warnings, suffixVars, fingeringVars>>

\* inner loop body, catch branch: parseChord raised, a warning is logged
ParseChordFailed ==
    /\ pc = "chords"
    /\ chordIdx <= Len(database[keyIdx].chords)
    /\ LET rawChord == database[keyIdx].chords[chordIdx]
       IN /\ parseChordThrows(rawChord)
          /\ warnings' = Append(warnings, <<normalizedKey, rawChord.suffix>>)
    /\ chordIdx' = chordIdx + 1
    /\ UNCHANGED <<database, chordsMap, pc, keyIdx, normalizedKey, suffixVars, fingeringVars>>

\* the inner loop is exhausted: next key
LeaveKey ==
    /\ pc = "chords"
    /\ chordIdx > Len(database[keyIdx].chords)
    /\ keyIdx' = keyIdx + 1
    /\ pc' = "keys"
    /\ UNCHANGED <<database, chordsMap, chordIdx, normalizedKey, warnings,
                   suffixVars, fingeringVars>>

\* the outer loop is exhausted: return chordsMap
Return ==
    /\ pc = "keys"
    /\ keyIdx > Len(database)
    /\ pc' = "done"
    /\ UNCHANGED <<passVars, suffixVars, fingeringVars>>

Next == EnterKey \/ ParseChordOk \/ ParseChordFailed \/ LeaveKey \/ Return

Spec == Init /\ [][Next]_vars

(***************************************************************************)
(* The suffix functions, each applied to inputs drawn from the lookup      *)
(* table, with and without a slash bass                                    *)
(***************************************************************************)

MajorCode == <<"m", "a", "j", "o", "r">>
SlashG == <<"/", "G">>

AbsentCodes == {<<>>, <<"m", "7", "#", "5">>, <<"d", "o", "m">>}
BassParts == {<<"/", "G">>, <<"/", "B", "b">>}

SuffixInputs ==
    (TableCodes \cup AbsentCodes)
        \cup {c \o b : c \in TableCodes \cup AbsentCodes, b \in BassParts}

SymbolKeys == {<<"C">>, <<"C", "#">>}

IdlePass ==
    /\ database = <<>> /\ chordsMap = <<>> /\ keyIdx = 1 /\ chordIdx = 1
    /\ normalizedKey = <<>> /\ warnings = <<>>

InitSuffix ==
    /\ pc = "suffix"
    /\ key \in SymbolKeys
    /\ suffix \in SuffixInputs
    /\ symbol = Undefined
    /\ quality = Undefined
    /\ progressions = Undefined
    /\ IdlePass
    /\ IdleFingering

BuildChordSymbol ==
    /\ pc = "suffix"
    /\ symbol = Undefined
    /\ symbol' = Defined(buildChordSymbol(key, suffix))
    /\ UNCHANGED <<pc, passVars, key, suffix, quality, progressions, fingeringVars>>

DetermineQuality ==
    /\ pc = "suffix"
    /\ quality = Undefined
    /\ quality' = Defined(determineQuality(suffix))
    /\ UNCHANGED <<pc, passVars, key, suffix, symbol, progressions, fingeringVars>>

FindCommonProgressions ==
    /\ pc = "suffix"
    /\ progressions = Undefined
    /\ progressions' = Defined(findCommonProgressions(suffix))
    /\ UNCHANGED <<pc, passVars, key, suffix, symbol, quality, fingeringVars>>

NextSuffix == BuildChordSymbol \/ DetermineQuality \/ FindCommonProgressions

SpecSuffix == InitSuffix /\ [][NextSuffix]_vars

(***************************************************************************)
(* parseFingering applied to raw positions                                 *)
(***************************************************************************)

FretValues == {-1, 0, 1, 4, 6}
BaseFrets == {1, 4, 8}
BarresInputs == {Undefined, Defined(<<>>), Defined(<<1>>), Defined(<<6, 1>>)}

Positions ==
    [frets : [1..NumStrings -> FretValues],
     fingers : {<<0, 0, 0, 0, 0, 0>>},
     baseFret : BaseFrets,
     barres : BarresInputs,
     capo : BOOLEAN,
     midi : {<<40, 47, 52>>}]

InitFingering ==
    /\ pc = "fingering"
    /\ (position \in Positions \/ position = BarrePosition)
    /\ fingering = Undefined
    /\ IdlePass
    /\ IdleSuffix

ParseFingering ==
    /\ pc = "fingering"
    /\ fingering = Undefined
    /\ fingering' = Defined(parseFingering(position, <<"m", "7">>, Defined(<<"E">>)))
    /\ UNCHANGED <<pc, passVars, suffixVars, position>>

NextFingering == ParseFingering

SpecFingering == InitFingering /\ [][NextFingering]_vars

(***************************************************************************)
(* Properties of the pass (checked under Spec)                             *)
(***************************************************************************)

NormalizedInputKeys == {normalizeKey(database[i].key) : i \in 1..Len(database)}

\* C1: at every step of the pass the top-level keys of the output catalog are
\* normalized input keys, and when parseAllChords has returned every raw key
\* of the input has its normalized key in the catalog, also when its chord
\* list is empty or every chord under it failed to parse.
C1_EveryKeyPresent ==
    /\ DOMAIN chordsMap \subseteq NormalizedInputKeys
    /\ pc = "done" => NormalizedInputKeys \subseteq DOMAIN chordsMap

\* the pass has returned, some key had chords and all of them raised, and the
\* key is in the catalog with no suffix under it
C1_Witness ==
    /\ pc = "done"
    /\ \E i \in 1..Len(database) :
          /\ Len(database[i].chords) >= 1
          /\ \A j \in 1..Len(database[i].chords) : parseChordThrows(database[i].chords[j])
          /\ normalizeKey(database[i].key) \in DOMAIN chordsMap
          /\ chordsMap[normalizeKey(database[i].key)] = <<>>

\* the chords the pass has gone through so far, as <<key index, chord index>>
ProcessedChords ==
    {p \in (1..Len(database)) \X (1..MaxChords) :
        /\ p[2] <= Len(database[p[1]].chords)
        /\ \/ p[1] < keyIdx
           \/ p[1] = keyIdx /\ pc = "chords" /\ p[2] < chordIdx}

\* C2 as stated: a chord whose symbol the music-theory service answers with
\* the empty chord is skipped, so no record of the catalog is built from an
\* empty chord.
C2_UnresolvedChordSkipped ==
    \A k \in DOMAIN chordsMap :
        \A s \in DOMAIN chordsMap[k] : ~chordsMap[k][s].empty

\* C2 as amended: an unresolved symbol does not make the pass skip the chord.
\* Every chord gone through whose parsing did not raise has a record under
\* its suffix key, a record built from the empty chord carries the normalized
\* key as tonic, and exactly the chords whose parsing raised were logged and
\* left out; the chords after them are gone through all the same.
C2_OnlyRaisingChordSkipped ==
    /\ \A p \in ProcessedChords :
          LET rawChord == database[p[1]].chords[p[2]]
              k == normalizeKey(database[p[1]].key)
          IN ~parseChordThrows(rawChord) =>
                /\ k \in DOMAIN chordsMap
                /\ suffixKey(rawChord) \in DOMAIN chordsMap[k]
    /\ \A k \in DOMAIN chordsMap :
          \A s \in DOMAIN chordsMap[k] :
              chordsMap[k][s].empty =>
                  chordsMap[k][s].tonic = k /\ chordsMap[k][s].notes = <<>>
    /\ Len(warnings) =
          Cardinality({p \in ProcessedChords :
                          parseChordThrows(database[p[1]].chords[p[2]])})

\* the pass has returned; under one key a first chord was answered with the
\* empty chord and has its record, and the chord after it has its record too
C2_Witness ==
    /\ pc = "done"
    /\ \E i \in 1..Len(database) :
          LET chords == database[i].chords
              k == normalizeKey(database[i].key)
          IN /\ Len(chords) = 2
             /\ ~parseChordThrows(chords[1]) /\ ~parseChordThrows(chords[2])
             /\ suffixKey(chords[1]) # suffixKey(chords[2])
             /\ chordsMap[k][suffixKey(chords[1])].empty
             /\ ~chordsMap[k][suffixKey(chords[2])].empty

\* C3: a database with one raw key K and one chord with suffix S and no
\* positions yields, without any failure logged, a record under
\* normalizeKey(K) and S (or "major" when S is empty) with no fingerings and
\* difficulty exactly 3; "Csharp" with suffix "" appears under "C#" / "major".
C3_ZeroPositionsEmitted ==
    (/\ pc = "done"
     /\ Len(database) = 1
     /\ Len(database[1].chords) = 1
     /\ database[1].chords[1].positions = Defined(<<>>))
    => LET K == database[1].key
           S == database[1].chords[1].suffix
           outKey == IF K = Csharp THEN <<"C", "#">> ELSE normalizeKey(K)
           outSuffix == IF S = <<>> THEN <<"m", "a", "j", "o", "r">> ELSE S
       IN /\ warnings = <<>>
          /\ outKey \in DOMAIN chordsMap
          /\ outSuffix \in DOMAIN chordsMap[outKey]
          /\ chordsMap[outKey][outSuffix].fingerings = <<>>
          /\ chordsMap[outKey][outSuffix].difficulty = 30

\* the pass over {"Csharp": [{suffix: "", positions: []}]} has returned with
\* the record in place
C3_Witness ==
    /\ pc = "done"
    /\ database = <<[key |-> Csharp,
                     chords |-> <<[suffix |-> <<>>, positions |-> Defined(<<>>)]>>]>>
    /\ <<"C", "#">> \in DOMAIN chordsMap
    /\ <<"m", "a", "j", "o", "r">> \in DOMAIN chordsMap[<<"C", "#">>]
    /\ chordsMap[<<"C", "#">>][<<"m", "a", "j", "o", "r">>].difficulty = 30

(***************************************************************************)
(* Properties of the suffix functions (checked under SpecSuffix)           *)
(***************************************************************************)

\* C4: for a table code c the symbol is the key followed by the table
\* fragment of c (the bare key when the fragment is empty), and for c + "/G"
\* it is the key, the fragment of c, then "/G"; a code absent from the table
\* is its own fragment.
C4_SymbolIsKeyPlusFragment ==
    symbol.defined =>
        /\ suffix \in TableCodes => symbol.value = key \o SuffixMapGet(suffix)
        /\ \A c \in TableCodes :
              suffix = c \o SlashG => symbol.value = key \o SuffixMapGet(c) \o SlashG
        /\ suffix \in AbsentCodes => symbol.value = key \o suffix

\* the rules of determineQuality, in their order: the test of rule i
QualityRuleMatches(i, sfx) ==
    CASE i = 1 -> Includes(sfx, <<"m", "a", "j", "7">>)
      [] i = 2 -> Includes(sfx, <<"m", "7">>)
      [] i = 3 -> Includes(sfx, <<"d", "i", "m", "7">>)
      [] i = 4 -> Includes(sfx, <<"a", "u", "g", "7">>)
      [] i = 5 -> Includes(sfx, <<"m", "9">>)
      [] i = 6 -> Includes(sfx, <<"m", "a", "j", "9">>)
      [] i = 7 -> Includes(sfx, <<"9">>) /\ ~Includes(sfx, <<"m", "a", "j">>)
      [] i = 8 -> Includes(sfx, <<"d", "i", "m">>)
      [] i = 9 -> Includes(sfx, <<"a", "u", "g">>)
      [] i = 10 -> Includes(sfx, <<"s", "u", "s">>)
      [] i = 11 -> Includes(sfx, <<"m">>)
      [] i = 12 -> sfx = <<"5">>
      [] i = 13 -> sfx = <<"6">>
      [] i = 14 -> sfx = <<"6", "9">>

QualityRuleTags ==
    <<"major-seventh", "minor-seventh", "diminished-seventh", "augmented-seventh",
      "minor-ninth", "major-ninth", "dominant-ninth", "diminished", "augmented",
      "suspended", "minor", "power", "sixth", "six-nine">>

\* C5: determineQuality returns the tag of the first rule, in the stated
\* order, whose test matches the raw suffix, and "major" when none matches;
\* "maj7" gives major-seventh and "m7b5" gives minor-seventh, never minor.
C5_FirstMatchingRule ==
    quality.defined =>
        LET matching == {i \in 1..Len(QualityRuleTags) : QualityRuleMatches(i, suffix)}
        IN /\ matching = {} => quality.value = "major"
           /\ matching # {} => quality.value = QualityRuleTags[SetMin(matching)]
           /\ suffix = <<"m", "a", "j", "7">> => quality.value = "major-seventh"
           /\ suffix = <<"m", "7", "b", "5">> => quality.value = "minor-seventh"

\* determineQuality has classified "m7b5", which the "m7" and the "m" tests
\* both match, as minor-seventh
C5_Witness ==
    /\ quality.defined
    /\ suffix = <<"m", "7", "b", "5">>
    /\ QualityRuleMatches(2, suffix) /\ QualityRuleMatches(11, suffix)
    /\ quality.value = "minor-seventh"

\* C9: every rule is effective for its own pattern: the suffix equal to the
\* pattern text of a rule is classified with that rule's tag.
C9_EveryRuleEffective ==
    quality.defined =>
        /\ suffix = <<"d", "i", "m", "7">> => quality.value = "diminished-seventh"
        /\ suffix = <<"a", "u", "g", "7">> => quality.value = "augmented-seventh"
        /\ suffix = <<"m", "9">> => quality.value = "minor-ninth"
        /\ suffix = <<"m", "a", "j", "9">> => quality.value = "major-ninth"
        /\ suffix = <<"9">> => quality.value = "dominant-ninth"
        /\ suffix = <<"5">> => quality.value = "power"
        /\ suffix = <<"6">> => quality.value = "sixth"
        /\ suffix = <<"6", "9">> => quality.value = "six-nine"

\* C10: findCommonProgressions returns the list of the first matching rule
\* (exactly "major", exactly "minor", contains "7", contains "m7"), the empty
\* list when none matches, and each fixed list for the suffix equal to its
\* own pattern: "m7" returns the minor-seventh list.
C10_ProgressionOfOwnPattern ==
    progressions.defined =>
        /\ suffix = MajorCode => progressions.value = <<"I-IV-V", "I-V-vi-IV", "ii-V-I">>
        /\ suffix = <<"m", "i", "n", "o", "r">>
              => progressions.value = <<"i-iv-v", "i-VI-III-VII", "ii(dim)-V-i">>
        /\ suffix = <<"7">> => progressions.value = <<"I7-IV7-V7", "ii7-V7-I7">>
        /\ suffix = <<"m", "7">> => progressions.value = <<"i7-iv7-v7", "ii7b5-V7-i7">>
        /\ (/\ suffix # MajorCode
            /\ suffix # <<"m", "i", "n", "o", "r">>
            /\ ~Includes(suffix, <<"7">>)
            /\ ~Includes(suffix, <<"m", "7">>)) => progressions.value = <<>>

(***************************************************************************)
(* Properties of the fingering analysis (checked under SpecFingering)      *)
(***************************************************************************)

\* the scores 1.0, 1.5, ..., 5.0, in tenths
ValidScores == {10, 15, 20, 25, 30, 35, 40, 45, 50}

\* a barre at a fret on either side of the fret > 5 test, as
\* calculateFingeringDifficulty may be handed one
BarreFrets == {1, 5, 6, 12}
BarreInfos ==
    {[present |-> TRUE, fromString |-> 6, toString |-> 1, fret |-> f] : f \in BarreFrets}

\* C6: for every raw position, with or without a barre at any fret,
\* calculateFingeringDifficulty is one of 1.0, 1.5, ..., 5.0.
C6_DifficultyInRange ==
    /\ (pc = "fingering" /\ ~fingering.defined) =>
          \A b \in BarreInfos \cup {NoBarre} :
              calculateFingeringDifficulty(position, b) \in ValidScores
    /\ fingering.defined => fingering.value.difficulty \in ValidScores

\* a fingering has been scored at the upper clamp, 5.0
C6_Witness ==
    /\ fingering.defined
    /\ fingering.value.barre.present
    /\ fingering.value.difficulty = 50

\* C7: with frets, baseFret and capo the same, a position with a barre never
\* scores lower than without one.
C7_MonotonicInBarre ==
    /\ (pc = "fingering" /\ ~fingering.defined) =>
          \A b \in BarreInfos :
              calculateFingeringDifficulty(position, b)
                  >= calculateFingeringDifficulty(position, NoBarre)
    /\ (fingering.defined /\ fingering.value.barre.present) =>
          fingering.value.difficulty >= calculateFingeringDifficulty(position, NoBarre)

\* a position with a capo has been scored with its barre, strictly above its
\* score without the barre
C7_Witness ==
    /\ fingering.defined
    /\ position.capo
    /\ fingering.value.barre.present
    /\ fingering.value.difficulty > calculateFingeringDifficulty(position, NoBarre)

\* C8: parseBarre returns no barre when barres is absent or empty or no
\* string is fretted at barres[0]; otherwise the barre is at fret barres[0]
\* and runs from the largest (fromString) to the smallest (toString) string
\* number 6 - index fretted there, so 1 <= toString <= fromString <= 6 and
\* every string at that fret lies between them; later barre frets are ignored.
\* frets [1,3,3,2,1,1] with barres [1] gives fromString 6, toString 1, fret 1.
C8_BarreSpan ==
    fingering.defined =>
        LET b == fingering.value.barre
            listed == position.barres.defined /\ position.barres.value # <<>>
            first == position.barres.value[1]
            atFret == {6 - (i - 1) : i \in {j \in 1..6 : position.frets[j] = first}}
        IN /\ (~listed \/ atFret = {}) => b = NoBarre
           /\ (listed /\ atFret # {}) =>
                 /\ b.present
                 /\ b.fret = first
                 /\ b.toString \in atFret /\ b.fromString \in atFret
                 /\ \A s \in atFret : b.toString <= s /\ s <= b.fromString
                 /\ 1 <= b.toString /\ b.toString <= b.fromString /\ b.fromString <= 6
           /\ position = BarrePosition =>
                 b = [present |-> TRUE, fromString |-> 6, toString |-> 1, fret |-> 1]

\* a barre over several strings has been found from a list of two barre frets
C8_Witness ==
    /\ fingering.defined
    /\ position.barres = Defined(<<6, 1>>)
    /\ fingering.value.barre.present
    /\ fingering.value.barre.fret = 6
    /\ fingering.value.barre.toString < fingering.value.barre.fromString
    /\ \E i \in 1..6 : position.frets[i] = 1

====
